---- MODULE Spec2Model ----
(***************************************************************************)
(* Model of merge_transcripts.py: the timestamp-based merge of audio       *)
(* transcripts into a chat log.  One run of merge_transcripts() is a       *)
(* sequence of steps: load the settings, scan and sort the transcript      *)
(* directory, read the chat file, walk the chat lines with a single cursor *)
(* into the sorted transcripts, append the unconsumed tail, write the      *)
(* destination.  An uncaught exception ends the run in pc = "failed".      *)
(***************************************************************************)
EXTENDS Integers, Sequences, FiniteSets, TLC

\* ------------------------------------------------------------------ bounds
\* Largest number of *.txt files in the transcript directory.
MaxFiles == 2
\* Largest number of lines in the chat file.
MaxChat == 2

\* ------------------------------------------------------- program constants
\* The tolerance in seconds of the test "abs(...total_seconds()) <= 60".
Tolerance == 60
SecondsPerDay == 86400
\* datetime.strptime(.., "%H:%M") yields the default date 1900-01-01; dates
\* are day numbers and this one is day 0.
ChatDate == 0

\* ------------------------------------------------------------ input domains
\* parse_transcript_timestamp returned None for the file name.
NoTs == [date |-> -1, tod |-> -1]
\* Calendar dates (day numbers) the file names carry.
Dates == {1, 2}
\* Times of day (seconds since midnight) the file names carry:
\* 14:03:59, 14:06:00, 14:06:01.
Tods == {50639, 50760, 50761}
Timestamps == [date : Dates, tod : Tods]
\* Times of day (seconds since midnight) of the chat lines: [14:05], [14:07].
ChatTimes == {50700, 50820}
\* A chat line is its parsed time (or NoTime when parse_chat_line_time gives
\* None); its text is identified by its position in the file.
NoTime == -1
ChatLineKinds == ChatTimes \cup {NoTime}
\* A chat line that starts with a bracketed token of the shape \d{1,2}:\d{2}
\* whose values are out of range, such as [25:00] or [14:99].
BadTime == -2
\* A line of a transcript file: its text (core) between leading and
\* trailing blanks; a line with an empty core is blank.
TextLine(lead, core, trail) == [lead |-> lead, core |-> core, trail |-> trail]
\* The texts a transcript file may hold: blanks only; two lines of text
\* with blanks and blank lines around them.
BlankText == <<TextLine(2, "", 0)>>
PaddedText == <<TextLine(0, "", 0), TextLine(1, "one", 0), TextLine(1, "two", 1),
               TextLine(0, "", 0)>>
FileTexts == {BlankText, PaddedText}
\* What is known of a transcript file's contents: not opened yet, open() or
\* read() raises, or its text.
Unread == [state |-> "unread", text |-> <<>>]
Unreadable == [state |-> "error", text |-> <<>>]
Readable(text) == [state |-> "read", text |-> text]
\* The settings documents: no settings file; a file yaml.safe_load cannot
\* parse; a document that is no mapping at top level; a mapping without the
\* key speaker_mapping; one whose speaker_mapping is no mapping; one with a
\* speaker mapping.
SettingsKinds == {"absent", "unparseable", "not_a_dict", "no_key", "bad_entry", "mapping"}
\* The destination's contents before the run (possibly: no such file).
Previous == <<[kind |-> "previous"]>>

VARIABLES
    pc,              \* position in merge_transcripts
    dirExists,       \* whether transcript_dir exists
    dir,             \* the *.txt files of transcript_dir: dir[p] is the
                     \* timestamp in the name of the p-th file by path order
    speaker_mapping, \* line 88
    transcripts,     \* line 95: list of [path, timestamp]
    chat_lines,      \* line 104
    result_lines,    \* line 106
    idx,             \* line 107: the cursor (0-based, as in the code)
    lineNo,          \* position of the for loop of line 109 (1-based)
    j,               \* position of the for loop of line 129 (0-based)
    dest,            \* contents of output_path
    error,           \* the uncaught exception that ended the run, or "none"
    settings,        \* the settings document at settings_path
    chat_file,       \* the chat file at chat_txt_path
    contents,        \* contents[p]: the p-th file's contents, fixed once read
    arg,             \* the argument of a call of one of the pure functions
    res,             \* and its result
    earlier,         \* what earlier calls of merge_transcripts left at output_path
    tests            \* the tolerance tests (line 117) the run has made

vars == <<pc, dirExists, dir, speaker_mapping, transcripts, chat_lines,
          result_lines, idx, lineNo, j, dest, error, settings, chat_file,
          contents, arg, res, earlier, tests>>
\* The inputs of a run other than the directory listing, and the variables
\* of the calls of the pure functions.
inputVars == <<settings, chat_file>>
callVars == <<arg, res, earlier>>

\* --------------------------------------------------------------- helpers
\* The sequences over S of length at most n: the contents a directory or a
\* chat file may have.
RECURSIVE SeqsUpTo(_, _)
SeqsUpTo(S, n) ==
    IF n = 0 THEN {<<>>}
    ELSE LET shorter == SeqsUpTo(S, n - 1)
         IN  shorter \cup {Append(s, x) : s \in {t \in shorter : Len(t) = n - 1}, x \in S}

\* All orderings of the elements of a sequence: glob() yields the directory
\* entries in no particular order.
Orderings(s) ==
    {[i \in 1..Len(s) |-> s[f[i]]] :
        f \in {g \in [1..Len(s) -> 1..Len(s)] : \A a, b \in 1..Len(s) : a # b => g[a] # g[b]}}

\* datetime comparison and subtraction: seconds on a common axis.
TsKey(t) == t.date * SecondsPerDay + t.tod

\* The files of the directory as [path, timestamp] records, by path.
DirFiles == [p \in 1..Len(dir) |-> [path |-> p, timestamp |-> dir[p]]]

\* Faulty variant of SortedByPath: the files stay in the order glob()
\* returned them.
GlobOrder(s) == s

\* sorted(...) over Path objects: ascending by path (insertion sort).
RECURSIVE SortedByPath(_)
SortedByPath(s) ==
    IF s = <<>> THEN <<>>
    ELSE LET rest == SortedByPath(Tail(s))
             x    == Head(s)
             k    == Cardinality({i \in 1..Len(rest) : rest[i].path <= x.path})
         IN  SubSeq(rest, 1, k) \o <<x>> \o SubSeq(rest, k + 1, Len(rest))

\* Faulty variant of ParsedOnly: a file whose name yields no timestamp is
\* kept, with the earliest timestamp.
ParsedOrEarliest(s) ==
    [i \in 1..Len(s) |->
        IF s[i].timestamp = NoTs
        THEN [s[i] EXCEPT !.timestamp = [date |-> 1, tod |-> 50639]]
        ELSE s[i]]

\* Lines 96-99: keep the files whose name yields a timestamp ("if ts:").
ParsedOnly(s) == SelectSeq(s, LAMBDA f : f.timestamp # NoTs)

\* Faulty variants of SortByTimestamp: the list is left in path order; the
\* list is sorted by time of day alone.
SortByTimestampPathOrder(s) == s
RECURSIVE SortByTimeOfDay(_)
SortByTimeOfDay(s) ==
    IF s = <<>> THEN <<>>
    ELSE LET n    == Len(s)
             init == SortByTimeOfDay(SubSeq(s, 1, n - 1))
             x    == s[n]
             k    == Cardinality({i \in 1..Len(init) : init[i].timestamp.tod <= x.timestamp.tod})
         IN  SubSeq(init, 1, k) \o <<x>> \o SubSeq(init, k + 1, Len(init))

\* Line 101: list.sort(key=timestamp), ascending and stable.
RECURSIVE SortByTimestamp(_)
SortByTimestamp(s) ==
    IF s = <<>> THEN <<>>
    ELSE LET n    == Len(s)
             init == SortByTimestamp(SubSeq(s, 1, n - 1))
             x    == s[n]
             k    == Cardinality({i \in 1..Len(init) :
                                     TsKey(init[i].timestamp) <= TsKey(x.timestamp)})
         IN  SubSeq(init, 1, k) \o <<x>> \o SubSeq(init, k + 1, Len(init))

\* Line 116: timestamp.replace(year, month, day of line_time).
Project(ts, line_time) == [date |-> line_time.date, tod |-> ts.tod]

\* parse_chat_line_time of a timed line: datetime(1900, 1, 1, H, M).
LineTime(line) == [date |-> ChatDate, tod |-> line.time]

\* Faulty variants of WithinTolerance: "<" for "<=", and a forgotten abs().
WithinToleranceStrict(ts, line_time) ==
    LET d == TsKey(Project(ts, line_time)) - TsKey(line_time)
    IN  (IF d < 0 THEN -d ELSE d) < Tolerance
WithinToleranceSigned(ts, line_time) ==
    TsKey(Project(ts, line_time)) - TsKey(line_time) <= Tolerance

\* Line 117: abs((t_time - line_time).total_seconds()) <= 60.
WithinTolerance(ts, line_time) ==
    LET d == TsKey(Project(ts, line_time)) - TsKey(line_time)
    IN  (IF d < 0 THEN -d ELSE d) <= Tolerance

\* Faulty variant of HourMinute: rounded to the nearest minute.
HourMinuteRounded(t) == <<((t.tod + 30) \div 3600) % 24, ((t.tod + 30) \div 60) % 60>>

\* strftime('%H:%M'): hour and minute, seconds dropped.
HourMinute(t) == <<t.tod \div 3600, (t.tod \div 60) % 60>>

\* Faulty variant of CopyLine: only the lines that carry a time are copied.
CopyTimedLine(out, line) == IF line.time # NoTime THEN Append(out, line) ELSE out

\* Line 110: result_lines.append(line).
CopyLine(out, line) == Append(out, line)

\* Faulty variant of RemainingFrom: the tail loop starts over at the first
\* transcript.
RemainingFromStart(cursor) == 0

\* Line 129: range(idx, len(transcripts)) starts at the cursor.
RemainingFrom(cursor) == cursor

\* Faulty variants of Advance: the cursor stays on the transcript it has
\* inlined; the cursor skips a transcript.
AdvanceNot(cursor) == cursor
AdvanceSkipping(cursor) == cursor + 2

\* Line 124: idx += 1.
Advance(cursor) == cursor + 1

\* A speaker mapping is the list of its <<key, value>> items in insertion
\* order; a settings value that is no mapping has no items().
NoMapping == [ismap |-> TRUE, items |-> <<>>]
NotAMapping == [ismap |-> FALSE, items |-> <<>>]
AMapping(items) == [ismap |-> TRUE, items |-> items]

\* The outcomes of a call that raises: of strptime in parse_chat_line_time,
\* and of mapping.items() in infer_speaker.
ValueError == -3
AttributeError == <<"AttributeError">>

\* ----------------------------------------------------- characters and names
\* A file name, a mapping key and a speaker are strings: sequences of
\* characters.
DigitChars == <<"0", "1", "2", "3", "4", "5", "6", "7", "8", "9">>
UpperChars == <<"A", "B", "C", "D", "E", "F", "G", "H", "I", "J", "K", "L", "M",
               "N", "O", "P", "Q", "R", "S", "T", "U", "V", "W", "X", "Y", "Z">>
LowerChars == <<"a", "b", "c", "d", "e", "f", "g", "h", "i", "j", "k", "l", "m",
               "n", "o", "p", "q", "r", "s", "t", "u", "v", "w", "x", "y", "z">>
Range(s) == {s[i] : i \in 1..Len(s)}
\* \d and \w of the regular expressions.
IsDigit(c) == c \in Range(DigitChars)
IsWord(c) == c \in Range(DigitChars) \cup Range(UpperChars) \cup Range(LowerChars) \cup {"_"}
DigitValue(c) == CHOOSE d \in 0..9 : DigitChars[d + 1] = c
\* int() of a string of digits.
RECURSIVE Number(_)
Number(s) == IF s = <<>> THEN 0
             ELSE 10 * Number(SubSeq(s, 1, Len(s) - 1)) + DigitValue(s[Len(s)])
TwoDigits(n) == <<DigitChars[(n \div 10) + 1], DigitChars[(n % 10) + 1]>>

\* str.lower().
LowerChar(c) ==
    IF c \in Range(UpperChars)
    THEN LowerChars[CHOOSE i \in 1..26 : UpperChars[i] = c]
    ELSE c
Lower(s) == [i \in 1..Len(s) |-> LowerChar(s[i])]

\* s[i..] starts with part.
StartsAt(s, i, part) ==
    /\ i >= 1
    /\ i + Len(part) - 1 <= Len(s)
    /\ SubSeq(s, i, i + Len(part) - 1) = part
\* part in s.
Contains(s, part) == \E i \in 1..(Len(s) + 1) : StartsAt(s, i, part)

DotTxt == <<".", "t", "x", "t">>
Unbekannt == <<"U", "n", "b", "e", "k", "a", "n", "n", "t">>
NoMatch == <<>>

\* \d{4}-\d{2}-\d{2} at s[i..i+9].
DateAt(s, i) ==
    /\ i >= 1
    /\ i + 9 <= Len(s)
    /\ \A k \in {0, 1, 2, 3, 5, 6, 8, 9} : IsDigit(s[i + k])
    /\ s[i + 4] = "-"
    /\ s[i + 7] = "-"

\* The length of the longest run of characters of [\d-] at s[i..].
RECURSIVE DigitRun(_, _)
DigitRun(s, i) ==
    IF i <= Len(s) /\ (IsDigit(s[i]) \/ s[i] = "-") THEN 1 + DigitRun(s, i + 1) ELSE 0

\* Line 55: re.search(r"\d{4}-\d{2}-\d{2}_[\d-]+_(.+)\.txt", file_name),
\* group 1 of the leftmost match, (.+) being greedy, or NoMatch.
DatedSegment(file_name) ==
    LET n == Len(file_name)
        \* the position of group 1 in a match that starts at i, or 0
        group(i) ==
            IF DateAt(file_name, i) /\ i + 10 <= n /\ file_name[i + 10] = "_"
            THEN LET run == DigitRun(file_name, i + 11)
                 IN  IF run >= 1 /\ i + 11 + run <= n /\ file_name[i + 11 + run] = "_"
                     THEN i + 12 + run
                     ELSE 0
            ELSE 0
        ends(g) == {k \in (g + 1)..n : StartsAt(file_name, k, DotTxt)}
        starts == {i \in 1..n : group(i) # 0 /\ ends(group(i)) # {}}
    IN  IF starts = {} THEN NoMatch
        ELSE LET first == CHOOSE i \in starts : \A k \in starts : i <= k
                 g == group(first)
                 last == CHOOSE e \in ends(g) : \A k \in ends(g) : k <= e
             IN  SubSeq(file_name, g, last - 1)

\* Line 59: re.search(r"_(\w+)\.txt$", file_name), group 1 of the leftmost
\* match, or NoMatch.
TrailingSegment(file_name) ==
    LET n == Len(file_name)
        starts == {u \in 1..(n - 5) :
                     /\ file_name[u] = "_"
                     /\ StartsAt(file_name, n - 3, DotTxt)
                     /\ \A k \in (u + 1)..(n - 4) : IsWord(file_name[k])}
    IN  IF starts = {} THEN NoMatch
        ELSE LET first == CHOOSE u \in starts : \A k \in starts : u <= k
             IN  SubSeq(file_name, first + 1, n - 4)

\* Lines 50-53: the items whose lower-cased key occurs in the lower-cased
\* file name, by their positions in the mapping.
MatchingItems(file_name, mapping) ==
    {i \in 1..Len(mapping.items) : Contains(Lower(file_name), Lower(mapping.items[i][1]))}

\* Faulty variant of InferSpeaker: the file name patterns are tried before
\* the mapping.
InferSpeakerPatternsFirst(file_name, mapping) ==
    IF ~mapping.ismap THEN AttributeError
    ELSE IF DatedSegment(file_name) # NoMatch THEN DatedSegment(file_name)
    ELSE IF TrailingSegment(file_name) # NoMatch THEN TrailingSegment(file_name)
    ELSE IF MatchingItems(file_name, mapping) # {}
    THEN mapping.items[CHOOSE i \in MatchingItems(file_name, mapping) :
                          \A k \in MatchingItems(file_name, mapping) : i <= k][2]
    ELSE Unbekannt

\* infer_speaker: the value of the first item, in the order of
\* mapping.items(), whose key occurs in the name; else the segment of the
\* dated pattern; else the trailing segment; else "Unbekannt". A mapping
\* value that is no mapping has no items(): AttributeError.
InferSpeaker(file_name, mapping) ==
    IF ~mapping.ismap THEN AttributeError
    ELSE IF MatchingItems(file_name, mapping) # {}
    THEN mapping.items[CHOOSE i \in MatchingItems(file_name, mapping) :
                          \A k \in MatchingItems(file_name, mapping) : i <= k][2]
    ELSE IF DatedSegment(file_name) # NoMatch THEN DatedSegment(file_name)
    ELSE IF TrailingSegment(file_name) # NoMatch THEN TrailingSegment(file_name)
    ELSE Unbekannt

\* None of parse_transcript_timestamp, and the datetime it returns.
NoTimestamp == [year |-> 0, month |-> 0, day |-> 0, hour |-> 0, minute |-> 0, second |-> 0]
Datetime(year, month, day, hour, minute, second) ==
    [year |-> year, month |-> month, day |-> day,
     hour |-> hour, minute |-> minute, second |-> second]

\* The days of a month of the Gregorian calendar.
IsLeap(year) == (year % 4 = 0 /\ year % 100 # 0) \/ year % 400 = 0
DaysIn(year, month) ==
    IF month = 2 THEN (IF IsLeap(year) THEN 29 ELSE 28)
    ELSE IF month \in {4, 6, 9, 11} THEN 30
    ELSE 31

\* Faulty variant of ValidDatetime: the day is checked against 31 only.
ValidDatetimeAnyMonth(t) ==
    /\ t.year \in 1..9999
    /\ t.month \in 1..12
    /\ t.day \in 1..31
    /\ t.hour \in 0..23
    /\ t.minute \in 0..59
    /\ t.second \in 0..59

\* Line 43: the values datetime.strptime(..., "%Y-%m-%d %H-%M-%S") accepts;
\* on any other it raises ValueError.
ValidDatetime(t) ==
    /\ t.year \in 1..9999
    /\ t.month \in 1..12
    /\ t.day \in 1..DaysIn(t.year, t.month)
    /\ t.hour \in 0..23
    /\ t.minute \in 0..59
    /\ t.second \in 0..59

\* Line 36: (\d{4}-\d{2}-\d{2})[ _-](\d{2})-(\d{2}) at name[i..i+15].
StampAt(name, i) ==
    /\ DateAt(name, i)
    /\ i + 15 <= Len(name)
    /\ name[i + 10] \in {" ", "_", "-"}
    /\ \A k \in {11, 12, 14, 15} : IsDigit(name[i + k])
    /\ name[i + 13] = "-"

\* Lines 36 and 41: the optional group (?:-(\d{2}))? after a match that
\* starts at i, and second = second or "00".
SecondsAt(name, i) ==
    IF i + 18 <= Len(name) /\ name[i + 16] = "-"
       /\ IsDigit(name[i + 17]) /\ IsDigit(name[i + 18])
    THEN SubSeq(name, i + 17, i + 18)
    ELSE <<"0", "0">>

\* parse_transcript_timestamp: the fields of the leftmost match of the
\* pattern, as a datetime when strptime accepts them, None otherwise.
ParseTranscriptTimestamp(name) ==
    LET starts == {i \in 1..Len(name) : StampAt(name, i)}
    IN  IF starts = {} THEN NoTimestamp
        ELSE LET i == CHOOSE k \in starts : \A l \in starts : k <= l
                 t == Datetime(Number(SubSeq(name, i, i + 3)),
                               Number(SubSeq(name, i + 5, i + 6)),
                               Number(SubSeq(name, i + 8, i + 9)),
                               Number(SubSeq(name, i + 11, i + 12)),
                               Number(SubSeq(name, i + 14, i + 15)),
                               Number(SecondsAt(name, i)))
             IN  IF ValidDatetime(t) THEN t ELSE NoTimestamp

\* The name of the file a transcript was read from: a prefix in path order,
\* the date and time its timestamp stands for, and one of three endings: a
\* dated name with a speaker, a name with a trailing speaker only, a name
\* without a speaker.
DateChars(date) == <<"2", "0", "2", "4", "-", "0", "6", "-">> \o TwoDigits(date)
TimeChars(tod) ==
    TwoDigits(tod \div 3600) \o <<"-">> \o TwoDigits((tod \div 60) % 60)
        \o <<"-">> \o TwoDigits(tod % 60)
FileName(transcript) ==
    LET shape == transcript.path % 3
        sep == IF shape = 1 THEN <<"_">> ELSE IF shape = 2 THEN <<"-">> ELSE <<" ">>
        speaker == IF shape = 1 THEN <<"_", "M", "a", "x">>
                   ELSE IF shape = 2 THEN <<"_", "B", "e", "n">>
                   ELSE <<>>
    IN  <<LowerChars[transcript.path]>> \o DateChars(transcript.timestamp.date) \o sep
            \o TimeChars(transcript.timestamp.tod) \o speaker \o DotTxt

\* The settings documents and what lines 88-93 make of them.
Doc(kind, items) == [kind |-> kind, items |-> items]
MaxItem == <<<<"m", "a", "x">>, <<"M", "a", "x", "i">>>>
MaItem == <<<<"M", "A">>, <<"M", "i", "a">>>>
BenItem == <<<<"b", "e", "n">>, <<"B", "e", "n", "n", "o">>>>
SettingsDocs ==
    {Doc(k, <<>>) : k \in SettingsKinds \ {"mapping"}}
        \cup {Doc("mapping", m) : m \in {<<>>, <<MaxItem>>, <<MaxItem, MaItem>>,
                                           <<MaItem, MaxItem>>}}
LoadedMapping(doc) ==
    IF doc.kind = "mapping" THEN AMapping(doc.items)
    ELSE IF doc.kind = "bad_entry" THEN NotAMapping
    ELSE NoMapping

\* File names at 14:04:30 and at 14:06:30, thirty seconds before the chat
\* lines [14:05] and [14:07].
HalfMinuteTimestamps == {[date |-> 1, tod |-> 50670], [date |-> 2, tod |-> 50790]}

\* Lines 118 and 131: infer_speaker(transcript["path"].name, speaker_mapping),
\* tabulated over the transcripts and the speaker mappings of a run. The
\* comparison makes the table a value computed once; a function that was
\* never compared is computed anew at every application.
SpeakerOf ==
    LET table == [transcript \in [path : 1..MaxFiles,
                                  timestamp : Timestamps \cup HalfMinuteTimestamps],
                  mapping \in {LoadedMapping(doc) : doc \in SettingsDocs} |->
                     InferSpeaker(FileName(transcript), mapping)]
    IN  CHOOSE f \in {table} : f = table

\* Faulty variant of ParseChatLineTime: a line without a time token counts
\* as a line at midnight.
ParseChatLineTimeLoose(line) ==
    IF line.time = NoTime THEN 0
    ELSE IF line.time = BadTime THEN ValueError
    ELSE line.time

\* parse_chat_line_time: None without a leading [H:MM] token; strptime
\* raises ValueError on a token whose hour or minute is out of range.
ParseChatLineTime(line) ==
    IF line.time = NoTime THEN NoTime
    ELSE IF line.time = BadTime THEN ValueError
    ELSE line.time

ChatLine(i, time) == [kind |-> "chat", no |-> i, time |-> time]
\* Lines 119 and 132: the header line of a transcript block; `at` records
\* the chat line it was emitted for (0: emitted by the tail loop).
Header(transcript, speaker, time, at) ==
    [kind |-> "header", path |-> transcript.path, speaker |-> speaker,
     time |-> time, at |-> at]
\* Lines 121 and 134: text.strip() followed by splitlines(): the blank
\* lines before the first and after the last line of text are dropped, and
\* so are the blanks before the first and after the last character.
Strip(text) ==
    LET full == {i \in 1..Len(text) : text[i].core # ""}
    IN  IF full = {} THEN <<>>
        ELSE LET first == CHOOSE i \in full : \A k \in full : i <= k
                 last  == CHOOSE i \in full : \A k \in full : k <= i
             IN  [i \in 1..(last - first + 1) |->
                    TextLine(IF i = 1 THEN 0 ELSE text[first + i - 1].lead,
                             text[first + i - 1].core,
                             IF i = last - first + 1 THEN 0 ELSE text[first + i - 1].trail)]

\* Faulty variant of Body: only the first line of the text is kept.
BodyFirstLine(transcript, lines) ==
    [i \in 1..(IF lines = <<>> THEN 0 ELSE 1) |->
        [kind |-> "body", path |-> transcript.path, no |-> i, text |-> lines[i]]]

\* Lines 122-123 and 135-136: the body lines of a transcript.
Body(transcript, lines) ==
    [i \in 1..Len(lines) |->
        [kind |-> "body", path |-> transcript.path, no |-> i, text |-> lines[i]]]

\* Lines 120 and 133: what opening and reading the file of a transcript may
\* give.
ReadOutcomes(transcript) ==
    IF contents[transcript.path] # Unread
    THEN {contents[transcript.path]}
    ELSE {Unreadable} \cup {Readable(t) : t \in FileTexts}

\* ------------------------------------------------------------------ Init
\* The state at the call of merge_transcripts, the file names carrying
\* timestamps of tss, the chat lines being of kinds and the settings
\* document one of docs.
InitWith(tss, kinds, docs) ==
    /\ pc = "settings"
    /\ dirExists \in BOOLEAN
    /\ dir \in SeqsUpTo(tss \cup {NoTs}, MaxFiles)
    /\ dirExists = FALSE => dir = <<>>
    /\ settings \in docs
    /\ chat_file \in {[exists |-> FALSE, lines |-> <<>>]}
                     \cup {[exists |-> TRUE, lines |-> l] : l \in SeqsUpTo(kinds, MaxChat)}
    /\ contents = [p \in 1..Len(dir) |-> Unread]
    /\ speaker_mapping = NoMapping
    /\ transcripts = <<>>
    /\ chat_lines = <<>>
    /\ result_lines = <<>>
    /\ idx = 0
    /\ lineNo = 1
    /\ j = 0
    /\ dest = Previous
    /\ error = "none"
    /\ arg = <<>>
    /\ res = <<>>
    /\ earlier = <<>>
    /\ tests = 0

Init == InitWith(Timestamps, ChatLineKinds, {Doc("absent", <<>>), Doc("unparseable", <<>>)})

\* The calls with every settings document and with chat lines whose time
\* token is out of range, over fewer file names.
WideTimestamps == {[date |-> 1, tod |-> 50760], [date |-> 2, tod |-> 50639]}
InitWide == InitWith(WideTimestamps, ChatLineKinds \cup {BadTime}, SettingsDocs)
InitHalfMinute ==
    InitWith(HalfMinuteTimestamps, ChatLineKinds, {Doc("absent", <<>>), Doc("no_key", <<>>)})

\* --------------------------------------------------------------- actions
\* Lines 88-93: the optional settings file; yaml.safe_load raises on a
\* document it cannot parse.
LoadSettings ==
    /\ pc = "settings"
    /\ IF settings.kind = "unparseable"
       THEN pc' = "failed" /\ error' = "settings" /\ UNCHANGED speaker_mapping
       ELSE pc' = "scan" /\ speaker_mapping' = LoadedMapping(settings) /\ UNCHANGED error
    /\ UNCHANGED <<dirExists, dir, transcripts, chat_lines,
                   result_lines, idx, lineNo, j, dest>>
    /\ UNCHANGED <<inputVars, contents, callVars, tests>>

\* Faulty variant of Scanned: the scan removes the files whose name yields
\* no timestamp.
ScannedPruned(files) == SelectSeq(files, LAMBDA t : t # NoTs)

\* Lines 96-97: glob() and file.name only read the directory, which holds
\* the same files after the scan.
Scanned(files) == files

\* Lines 95-99: glob (in any order; nothing when the directory is missing),
\* sorted by path, files without a timestamp left out.
ScanDirectory ==
    /\ pc = "scan"
    /\ \E listing \in Orderings(DirFiles) :
          transcripts' = ParsedOnly(SortedByPath(listing))
    /\ dir' = Scanned(dir)
    /\ pc' = "sort"
    /\ UNCHANGED <<dirExists, speaker_mapping, chat_lines, result_lines,
                   idx, lineNo, j, dest, error>>
    /\ UNCHANGED <<inputVars, contents, callVars, tests>>

\* Line 101.
SortTranscripts ==
    /\ pc = "sort"
    /\ transcripts' = SortByTimestamp(transcripts)
    /\ pc' = "readchat"
    /\ UNCHANGED <<dirExists, dir, speaker_mapping, chat_lines, result_lines,
                   idx, lineNo, j, dest, error>>
    /\ UNCHANGED <<inputVars, contents, callVars, tests>>

\* Lines 103-107: open() raises when the chat file is missing.
ReadChat ==
    /\ pc = "readchat"
    /\ IF ~chat_file.exists
       THEN /\ pc' = "failed"
            /\ error' = "chat"
            /\ UNCHANGED chat_lines
       ELSE /\ chat_lines' = [i \in 1..Len(chat_file.lines) |-> ChatLine(i, chat_file.lines[i])]
            /\ pc' = "walk"
            /\ UNCHANGED error
    /\ UNCHANGED <<dirExists, dir, speaker_mapping, transcripts, result_lines,
                   idx, lineNo, j, dest>>
    /\ UNCHANGED <<inputVars, contents, callVars, tests>>

\* Lines 109-112: the next chat line is copied and parsed; a timed line
\* enters the while loop, and strptime raises on a token out of range.
NextLine ==
    /\ pc = "walk"
    /\ lineNo <= Len(chat_lines)
    /\ result_lines' = CopyLine(result_lines, chat_lines[lineNo])
    /\ LET line_time == ParseChatLineTime(chat_lines[lineNo])
       IN  IF line_time = ValueError
           THEN pc' = "failed" /\ error' = "chat_time" /\ UNCHANGED lineNo
           ELSE IF line_time # NoTime
           THEN pc' = "match" /\ UNCHANGED <<lineNo, error>>
           ELSE pc' = "walk" /\ lineNo' = lineNo + 1 /\ UNCHANGED error
    /\ UNCHANGED <<dirExists, dir, speaker_mapping, transcripts, chat_lines,
                   idx, j, dest>>
    /\ UNCHANGED <<inputVars, contents, callVars, tests>>

\* Line 109: the chat lines are exhausted.
EndWalk ==
    /\ pc = "walk"
    /\ lineNo > Len(chat_lines)
    /\ pc' = "tail"
    /\ j' = RemainingFrom(idx)
    /\ UNCHANGED <<dirExists, dir, speaker_mapping, transcripts, chat_lines,
                   result_lines, idx, lineNo, dest, error>>
    /\ UNCHANGED <<inputVars, contents, callVars, tests>>

\* Lines 113-126: one iteration of the while loop.
MatchTest ==
    /\ pc = "match"
    /\ IF idx < Len(transcripts)
          /\ WithinTolerance(transcripts[idx + 1].timestamp, LineTime(chat_lines[lineNo]))
       THEN LET transcript == transcripts[idx + 1]
                t_time == Project(transcript.timestamp, LineTime(chat_lines[lineNo]))
                speaker == SpeakerOf[transcript, speaker_mapping]
                header == Header(transcript, speaker, HourMinute(t_time), lineNo)
            IN  IF speaker = AttributeError
                THEN /\ pc' = "failed"
                     /\ error' = "speaker"
                     /\ UNCHANGED <<result_lines, idx, lineNo, contents>>
                ELSE \E file \in ReadOutcomes(transcript) :
                   /\ contents' = [contents EXCEPT ![transcript.path] = file]
                   /\ IF file = Unreadable
                      THEN /\ result_lines' = Append(result_lines, header)
                           /\ pc' = "failed"
                           /\ error' = "transcript"
                           /\ UNCHANGED <<idx, lineNo>>
                      ELSE /\ result_lines' = Append(result_lines, header)
                                                 \o Body(transcript, Strip(file.text))
                           /\ idx' = Advance(idx)
                           /\ UNCHANGED <<pc, lineNo, error>>
       ELSE /\ pc' = "walk"
            /\ lineNo' = lineNo + 1
            /\ UNCHANGED <<result_lines, idx, error, contents>>
    /\ tests' = IF idx < Len(transcripts) THEN tests + 1 ELSE tests
    /\ UNCHANGED <<dirExists, dir, speaker_mapping, transcripts, chat_lines, j, dest>>
    /\ UNCHANGED <<inputVars, callVars>>

\* Lines 129-136: one iteration of the tail loop.
AppendRemaining ==
    /\ pc = "tail"
    /\ j < Len(transcripts)
    /\ LET transcript == transcripts[j + 1]
           speaker == SpeakerOf[transcript, speaker_mapping]
           header == Header(transcript, speaker, HourMinute(transcript.timestamp), 0)
       IN  IF speaker = AttributeError
           THEN /\ pc' = "failed"
                /\ error' = "speaker"
                /\ UNCHANGED <<result_lines, j, contents>>
           ELSE \E file \in ReadOutcomes(transcript) :
              /\ contents' = [contents EXCEPT ![transcript.path] = file]
              /\ IF file = Unreadable
                 THEN /\ result_lines' = Append(result_lines, header)
                      /\ pc' = "failed"
                      /\ error' = "transcript"
                      /\ UNCHANGED j
                 ELSE /\ result_lines' = Append(result_lines, header)
                                            \o Body(transcript, Strip(file.text))
                      /\ j' = j + 1
                      /\ UNCHANGED <<pc, error>>
    /\ UNCHANGED <<dirExists, dir, speaker_mapping, transcripts, chat_lines,
                   idx, lineNo, dest>>
    /\ UNCHANGED <<inputVars, callVars, tests>>

\* Line 129: the tail loop is exhausted.
EndTail ==
    /\ pc = "tail"
    /\ j >= Len(transcripts)
    /\ pc' = "write"
    /\ UNCHANGED <<dirExists, dir, speaker_mapping, transcripts, chat_lines,
                   result_lines, idx, lineNo, j, dest, error>>
    /\ UNCHANGED <<inputVars, contents, callVars, tests>>

\* Faulty variant of Written: the lines are added to what the file held.
WrittenAfter(previous, lines) == previous \o lines

\* Line 138: open(output_path, "w") truncates the file, which then holds
\* the lines written and nothing of what it held before.
Written(previous, lines) == lines

\* Lines 138-139: the destination is replaced by the joined result lines.
WriteOutput ==
    /\ pc = "write"
    /\ dest' = Written(dest, result_lines)
    /\ pc' = "done"
    /\ UNCHANGED <<dirExists, dir, speaker_mapping, transcripts, chat_lines,
                   result_lines, idx, lineNo, j, error>>
    /\ UNCHANGED <<inputVars, contents, callVars, tests>>

Next ==
    \/ LoadSettings
    \/ ScanDirectory
    \/ SortTranscripts
    \/ ReadChat
    \/ NextLine
    \/ EndWalk
    \/ MatchTest
    \/ AppendRemaining
    \/ EndTail
    \/ WriteOutput

Spec == Init /\ [][Next]_vars
SpecWide == InitWide /\ [][Next]_vars
SpecHalfMinute == InitHalfMinute /\ [][Next]_vars

\* Lines 74-107: a second call with the same arguments, after a call that
\* returned or raised: its local variables start afresh; the files are as
\* the earlier call left them.
Invoke ==
    /\ pc \in {"done", "failed"}
    /\ earlier = <<>>
    /\ earlier' = Append(earlier, dest)
    /\ pc' = "settings"
    /\ speaker_mapping' = NoMapping
    /\ transcripts' = <<>>
    /\ chat_lines' = <<>>
    /\ result_lines' = <<>>
    /\ idx' = 0
    /\ lineNo' = 1
    /\ j' = 0
    /\ error' = "none"
    /\ tests' = 0
    /\ UNCHANGED <<dirExists, dir, dest, settings, chat_file, contents, arg, res>>

\* Calls in a row, with and without a speaker mapping.
InitTwice ==
    InitWith(WideTimestamps, ChatLineKinds, {Doc("absent", <<>>), Doc("mapping", <<MaxItem>>)})
NextTwice == Next \/ Invoke
SpecTwice == InitTwice /\ [][NextTwice]_vars

\* A run over few inputs whose steps are taken as long as one is possible:
\* merge_transcripts is one sequential call, which nothing suspends.
InitFair == InitWith(WideTimestamps, ChatLineKinds, {Doc("absent", <<>>)})
SpecFair == InitFair /\ [][Next]_vars /\ WF_vars(Next)

TypeOK ==
    /\ pc \in {"settings", "scan", "sort", "readchat", "walk", "match", "tail",
               "write", "done", "failed"}
    /\ idx \in 0..Len(transcripts)
    /\ j \in 0..Len(transcripts)
    /\ lineNo \in 1..(Len(chat_lines) + 1)
    /\ error \in {"none", "settings", "chat", "chat_time", "speaker", "transcript"}
    /\ (pc = "failed") <=> (error # "none")


\* ------------------------------------------- calls of the pure functions
\* The variables of a run of merge_transcripts while no run is under way.
runVars == <<dirExists, dir, speaker_mapping, transcripts, chat_lines,
             result_lines, idx, lineNo, j, dest, error, settings, chat_file,
             contents, tests>>
NoRun ==
    /\ dirExists = FALSE
    /\ dir = <<>>
    /\ speaker_mapping = NoMapping
    /\ transcripts = <<>>
    /\ chat_lines = <<>>
    /\ result_lines = <<>>
    /\ idx = 0
    /\ lineNo = 1
    /\ j = 0
    /\ dest = Previous
    /\ error = "none"
    /\ settings = Doc("absent", <<>>)
    /\ chat_file = [exists |-> FALSE, lines |-> <<>>]
    /\ contents = <<>>
    /\ tests = 0

\* A field of a file name: its characters and the number they spell.
Field(chars, value) == [chars |-> chars, value |-> value]
\* The dates, with whether the calendar has them.
DateFields ==
    {[chars |-> <<"2", "0", "2", "4", "-", "0", "6", "-", "0", "1">>,
      year |-> 2024, month |-> 6, day |-> 1, valid |-> TRUE],
     [chars |-> <<"2", "0", "2", "4", "-", "0", "2", "-", "2", "9">>,
      year |-> 2024, month |-> 2, day |-> 29, valid |-> TRUE],
     [chars |-> <<"1", "9", "9", "9", "-", "1", "2", "-", "3", "1">>,
      year |-> 1999, month |-> 12, day |-> 31, valid |-> TRUE],
     [chars |-> <<"2", "0", "2", "3", "-", "0", "2", "-", "2", "9">>,
      year |-> 2023, month |-> 2, day |-> 29, valid |-> FALSE],
     [chars |-> <<"2", "0", "2", "4", "-", "1", "3", "-", "0", "1">>,
      year |-> 2024, month |-> 13, day |-> 1, valid |-> FALSE],
     [chars |-> <<"2", "0", "2", "4", "-", "0", "6", "-", "3", "1">>,
      year |-> 2024, month |-> 6, day |-> 31, valid |-> FALSE],
     [chars |-> <<"2", "0", "2", "4", "-", "0", "1", "-", "3", "2">>,
      year |-> 2024, month |-> 1, day |-> 32, valid |-> FALSE],
     [chars |-> <<"2", "0", "2", "4", "-", "0", "0", "-", "1", "0">>,
      year |-> 2024, month |-> 0, day |-> 10, valid |-> FALSE],
     [chars |-> <<"0", "0", "0", "0", "-", "0", "6", "-", "0", "1">>,
      year |-> 0, month |-> 6, day |-> 1, valid |-> FALSE]}
HourFields == {Field(<<"0", "0">>, 0), Field(<<"1", "4">>, 14), Field(<<"2", "3">>, 23),
               Field(<<"2", "4">>, 24), Field(<<"2", "5">>, 25)}
MinuteFields == {Field(<<"0", "5">>, 5), Field(<<"5", "9">>, 59), Field(<<"6", "0">>, 60)}
\* What follows the minutes: nothing, a seconds field, or a dash and one
\* digit, which is no seconds field.
NoSeconds == -1
SecondFields == {Field(<<>>, NoSeconds), Field(<<"-", "5">>, NoSeconds),
                 Field(<<"-", "3", "0">>, 30), Field(<<"-", "5", "9">>, 59),
                 Field(<<"-", "6", "0">>, 60), Field(<<"-", "7", "5">>, 75)}
Separators == {<<" ">>, <<"_">>, <<"-">>, <<"x">>, <<>>}
Prefixes == {<<>>, <<"a", "1">>}
Suffixes == {DotTxt, <<"_", "M", "a", "x">> \o DotTxt}
ParseInputs ==
    [prefix : Prefixes, date : DateFields, sep : Separators, hour : HourFields,
     minute : MinuteFields, second : SecondFields, suffix : Suffixes]
\* The file name made of the fields.
NameOf(a) ==
    a.prefix \o a.date.chars \o a.sep \o a.hour.chars \o <<"-">> \o a.minute.chars
        \o a.second.chars \o a.suffix

InitParse ==
    /\ pc = "call"
    /\ arg \in ParseInputs
    /\ res = NoTimestamp
    /\ earlier = <<>>
    /\ NoRun

\* A call parse_transcript_timestamp(filename).
CallParseTranscriptTimestamp ==
    /\ pc = "call"
    /\ res' = ParseTranscriptTimestamp(NameOf(arg))
    /\ pc' = "returned"
    /\ UNCHANGED <<arg, earlier, runVars>>

NextParse == CallParseTranscriptTimestamp
SpecParse == InitParse /\ [][NextParse]_vars

\* File names, each with the speaker segment it carries, if any, after a
\* date and a run of digits and after an underscore at its end, and with
\* the items whose key it holds in some case.
SpeakerNames ==
    {[name |-> <<"2", "0", "2", "4", "-", "0", "6", "-", "2", "8", "_", "1", "4", "-", "0", "5", "-", "3", "0", "_", "M", "a", "x", ".", "t", "x", "t">>,
      dated |-> <<"M", "a", "x">>, trailing |-> <<"M", "a", "x">>, holds |-> {MaxItem, MaItem}],
     [name |-> <<"2", "0", "2", "4", "-", "0", "6", "-", "2", "8", "_", "1", "4", "-", "0", "5", "_", "M", "a", "x", "-", "B", ".", "t", "x", "t">>,
      dated |-> <<"M", "a", "x", "-", "B">>, trailing |-> <<>>, holds |-> {MaxItem, MaItem}],
     [name |-> <<"m", "e", "m", "o", "_", "B", "e", "n", ".", "t", "x", "t">>,
      dated |-> <<>>, trailing |-> <<"B", "e", "n">>, holds |-> {BenItem}],
     [name |-> <<"v", "o", "i", "c", "e", " ", "n", "o", "t", "e", ".", "t", "x", "t">>,
      dated |-> <<>>, trailing |-> <<>>, holds |-> {}],
     [name |-> <<"2", "0", "2", "4", "-", "0", "6", "-", "2", "8", " ", "1", "4", "-", "0", "5", "_", "M", "a", "x", "i", "n", "e", ".", "t", "x", "t">>,
      dated |-> <<>>, trailing |-> <<"M", "a", "x", "i", "n", "e">>, holds |-> {MaxItem, MaItem}],
     [name |-> <<"2", "0", "2", "4", "-", "0", "6", "-", "2", "8", "_", "1", "4", "-", "0", "5", "_", "a", "n", "n", "a", "_", "b", ".", "t", "x", "t">>,
      dated |-> <<"a", "n", "n", "a", "_", "b">>, trailing |-> <<"a", "n", "n", "a", "_", "b">>, holds |-> {}],
     [name |-> <<"M", "A", "X", " ", "2", "0", "2", "4", ".", "t", "x", "t">>,
      dated |-> <<>>, trailing |-> <<>>, holds |-> {MaxItem, MaItem}],
     [name |-> <<"n", "o", "t", "e", "s", "_", "m", "a", ".", "t", "x", "t">>,
      dated |-> <<>>, trailing |-> <<"m", "a">>, holds |-> {MaItem}]}
\* The speaker mappings: up to two of the items, in either order.
SpeakerMappings ==
    {AMapping(m) : m \in {q \in SeqsUpTo({MaxItem, MaItem, BenItem}, 2) :
                             \A a, b \in 1..Len(q) : a # b => q[a] # q[b]}}

InitSpeaker ==
    /\ pc = "call"
    /\ arg \in [file : SpeakerNames, mapping : SpeakerMappings]
    /\ res = <<>>
    /\ earlier = <<>>
    /\ NoRun

\* A call infer_speaker(filename, mapping).
CallInferSpeaker ==
    /\ pc = "call"
    /\ res' = InferSpeaker(arg.file.name, arg.mapping)
    /\ pc' = "returned"
    /\ UNCHANGED <<arg, earlier, runVars>>

NextSpeaker == CallInferSpeaker
SpecSpeaker == InitSpeaker /\ [][NextSpeaker]_vars

\* Lines 115-117 on calendar datetimes: the tolerance test of one
\* transcript timestamp against the time of one chat line.
\* date.toordinal(): the days from 0001-01-01, which is day 1.
DaysBeforeYear(year) ==
    (year - 1) * 365 + (year - 1) \div 4 - (year - 1) \div 100 + (year - 1) \div 400
RECURSIVE DaysBeforeMonth(_, _)
DaysBeforeMonth(year, month) ==
    IF month = 1 THEN 0
    ELSE DaysBeforeMonth(year, month - 1) + DaysIn(year, month - 1)
Ordinal(t) == DaysBeforeYear(t.year) + DaysBeforeMonth(t.year, t.month) + t.day
TimeOfDay(t) == t.hour * 3600 + t.minute * 60 + t.second

\* Line 71: strptime(..., "%H:%M") fills the date with 1900-01-01 and the
\* seconds with 0.
ChatDatetime(hour, minute) == Datetime(1900, 1, 1, hour, minute, 0)

\* Faulty variant of ReplaceDate: only the year is replaced.
ReplaceYear(t, line_time) == [t EXCEPT !.year = line_time.year]

\* Line 116: replace(year=line_time.year, month=line_time.month,
\* day=line_time.day).
ReplaceDate(t, line_time) ==
    [t EXCEPT !.year = line_time.year, !.month = line_time.month, !.day = line_time.day]

\* Faulty variant of TotalSeconds: the shorter way round the clock.
TotalSecondsRoundTheClock(a, b) ==
    LET d == ((Ordinal(a) - Ordinal(b)) * SecondsPerDay + TimeOfDay(a) - TimeOfDay(b))
                 % SecondsPerDay
    IN  IF 2 * d > SecondsPerDay THEN d - SecondsPerDay ELSE d

\* Line 117: (t_time - line_time).total_seconds().
TotalSeconds(a, b) ==
    (Ordinal(a) - Ordinal(b)) * SecondsPerDay + TimeOfDay(a) - TimeOfDay(b)

\* Lines 116-117: replace() raises ValueError on a date that does not
\* exist; otherwise the test is abs(total_seconds) <= 60.
ToleranceTest(timestamp, line_time) ==
    LET t_time == ReplaceDate(timestamp, line_time)
        d      == TotalSeconds(t_time, line_time)
    IN  IF ~ValidDatetime(t_time) THEN "ValueError"
        ELSE IF (IF d < 0 THEN -d ELSE d) <= Tolerance THEN "within"
        ELSE "apart"

\* The calendar dates and times of day of the transcripts and the times of
\* the chat lines of the calls.
CivilDates == {<<2024, 2, 29>>, <<2024, 6, 28>>, <<2023, 3, 31>>, <<1999, 12, 31>>,
               <<1900, 1, 1>>}
CivilTimes == {<<23, 59, 30>>, <<23, 59, 0>>, <<0, 0, 30>>, <<0, 0, 0>>, <<0, 1, 0>>,
               <<14, 3, 59>>, <<14, 4, 0>>, <<14, 4, 30>>, <<14, 6, 0>>, <<14, 6, 1>>}
CivilChatTimes == {<<0, 0>>, <<23, 59>>, <<14, 5>>}
MatchInputs ==
    {[timestamp |-> Datetime(d[1], d[2], d[3], t[1], t[2], t[3]),
      line_time |-> ChatDatetime(c[1], c[2])] :
        d \in CivilDates, t \in CivilTimes, c \in CivilChatTimes}
InitMatch ==
    /\ pc = "call"
    /\ arg \in MatchInputs
    /\ res = ""
    /\ earlier = <<>>
    /\ NoRun

\* The tolerance test of lines 116-117 on one transcript and one chat line.
CallToleranceTest ==
    /\ pc = "call"
    /\ res' = ToleranceTest(arg.timestamp, arg.line_time)
    /\ pc' = "returned"
    /\ UNCHANGED <<arg, earlier, runVars>>

NextMatch == CallToleranceTest
SpecMatch == InitMatch /\ [][NextMatch]_vars

\* ----------------------------------------------------- the walk as a function
\* Lines 109-136 on a sorted list ts and chat lines chat, bodies left out:
\* the set of <<path, chat line>> pairs of the transcripts inlined, from
\* chat line n on with the cursor at c.
RECURSIVE WalkFrom(_, _, _, _)
WalkFrom(ts, chat, n, c) ==
    IF n > Len(chat) THEN {}
    ELSE IF /\ chat[n].time # NoTime
            /\ c < Len(ts)
            /\ WithinTolerance(ts[c + 1].timestamp, LineTime(chat[n]))
         THEN {<<ts[c + 1].path, n>>} \cup WalkFrom(ts, chat, n, c + 1)
         ELSE WalkFrom(ts, chat, n + 1, c)

\* The match assignment of a run: which transcript is inlined after which
\* chat line, the others (line 0) going to the tail.
MatchAssignment(ts, chat) ==
    LET inlined == WalkFrom(ts, chat, 1, 0)
    IN  inlined \cup {<<ts[k].path, 0>> : k \in {i \in 1..Len(ts) :
                                            \A a \in inlined : a[1] # ts[i].path}}

\* ------------------------------------------------- reading the output
\* The positions of the header lines of the file with path p in an output.
HeadersOf(out, p) == {i \in 1..Len(out) : out[i].kind = "header" /\ out[i].path = p}
\* The positions of the header lines emitted by the walk / by the tail loop.
InlinePos(out) == {i \in 1..Len(out) : out[i].kind = "header" /\ out[i].at > 0}
TailPos(out) == {i \in 1..Len(out) : out[i].kind = "header" /\ out[i].at = 0}
ChatPos(out) == {i \in 1..Len(out) : out[i].kind = "chat"}
\* An output with everything but the chat lines removed.
ChatOnly(out) == SelectSeq(out, LAMBDA r : r.kind = "chat")
\* The paths of the files whose name yields a timestamp.
Timestamped == {p \in 1..Len(dir) : dir[p] # NoTs}
Abs(x) == IF x < 0 THEN -x ELSE x
\* Seconds between the time of day of file p and the time of chat line n.
Apart(p, n) == Abs(dir[p].tod - chat_lines[n].time)
TimedLines == {n \in 1..Len(chat_lines) : chat_lines[n].time # NoTime}

\* ------------------------------------------------------------------ C1
\* C1: after merge_transcripts completes, every transcript whose file name
\* yields a timestamp has exactly one header line in the output, emitted
\* either by the walk or by the tail loop.
C1_ExactlyOneBlock ==
    pc = "done" =>
        \A p \in Timestamped : Cardinality(HeadersOf(dest, p)) = 1

\* A completed run with one transcript inlined and another in the tail.
C1_Witness ==
    /\ pc = "done"
    /\ InlinePos(dest) # {}
    /\ TailPos(dest) # {}

\* ------------------------------------------------------------------ C2
\* C2: the output with the transcript blocks removed is the sequence of the
\* input chat lines: none dropped, altered or reordered.
C2_ChatLinesPreserved ==
    pc = "done" => ChatOnly(dest) = chat_lines

\* A completed run over a timed and an untimed chat line, with a transcript
\* block between the two.
C2_Witness ==
    /\ pc = "done"
    /\ Len(chat_lines) = 2
    /\ chat_lines[1].time # NoTime
    /\ chat_lines[2].time = NoTime
    /\ \E i \in InlinePos(dest) : dest[i].at = 1

\* ------------------------------------------------------------------ C3
\* C3: the tolerance test is inclusive at 60 seconds.  A test of the
\* transcript at the cursor whose time of day is exactly 60 s from the chat
\* line's time emits its header for that chat line (and consumes it when its
\* file is read); at 61 s nothing is emitted, the cursor stays and the walk
\* goes on to the next chat line.
C3_ToleranceInclusive ==
    [][(pc = "match" /\ idx < Len(transcripts)) =>
        LET t == transcripts[idx + 1]
            d == Abs(t.timestamp.tod - chat_lines[lineNo].time)
            n == Len(result_lines)
        IN  /\ d = 60 =>
                /\ Len(result_lines') > n
                /\ result_lines'[n + 1].kind = "header"
                /\ result_lines'[n + 1].path = t.path
                /\ result_lines'[n + 1].at = lineNo
                /\ error' = "none" => idx' = idx + 1 /\ pc' = "match"
            /\ d = 61 =>
                /\ result_lines' = result_lines
                /\ idx' = idx
                /\ lineNo' = lineNo + 1
                /\ pc' = "walk"
       ]_vars

\* A completed run in which the first transcript was 61 s after the first
\* chat line and is inlined after the second, and another transcript is
\* inlined exactly 60 s before its chat line.
C3_Witness ==
    /\ pc = "done"
    /\ Len(chat_lines) = 2
    /\ Len(transcripts) = 2
    /\ chat_lines[1].time # NoTime
    /\ transcripts[1].timestamp.tod - chat_lines[1].time = 61
    /\ \E i \in InlinePos(dest) : dest[i].path = transcripts[1].path /\ dest[i].at = 2
    /\ \E i \in InlinePos(dest) :
          /\ dest[i].path = transcripts[2].path
          /\ dest[i].at = 2
          /\ chat_lines[2].time - dir[dest[i].path].tod = 60

\* ------------------------------------------------------------------ C4
\* The chat line after which the file with path p has its header (0: tail).
LineOf(p) == dest[CHOOSE i \in HeadersOf(dest, p) : TRUE].at

\* C4 as claimed: a transcript is inlined after at most one chat line, and
\* that line is the first one of the whole chat log whose time is within
\* 60 s of the transcript's time of day.
C4_FirstLineOfLog ==
    pc = "done" =>
        \A p \in Timestamped :
            /\ Cardinality(HeadersOf(dest, p) \cap InlinePos(dest)) <= 1
            /\ \A i \in HeadersOf(dest, p) \cap InlinePos(dest) :
                  /\ Apart(p, dest[i].at) <= 60
                  /\ \A m \in TimedLines : m < dest[i].at => Apart(p, m) > 60

\* C4 as amended: a transcript is inlined after at most one chat line, and
\* that line is the first one within 60 s of its time of day counting from
\* the chat line after which the transcript before it in sorted order was
\* inlined (from the first chat line for the first transcript).
C4_FirstLineFromCursor ==
    pc = "done" =>
        \A k \in 1..Len(transcripts) :
            LET p == transcripts[k].path
            IN  /\ Cardinality(HeadersOf(dest, p) \cap InlinePos(dest)) <= 1
                /\ \A i \in HeadersOf(dest, p) \cap InlinePos(dest) :
                      LET from == IF k = 1 THEN 1 ELSE LineOf(transcripts[k - 1].path)
                      IN  /\ Apart(p, dest[i].at) <= 60
                          /\ 1 <= from
                          /\ from <= dest[i].at
                          /\ \A m \in TimedLines :
                                (from <= m /\ m < dest[i].at) => Apart(p, m) > 60

\* A completed run in which a transcript is inlined after the second chat
\* line although the first chat line is within 60 s of it: the cursor was
\* held by an earlier transcript when the first line was walked.
C4_Witness ==
    /\ pc = "done"
    /\ Len(chat_lines) = 2
    /\ chat_lines[1].time # NoTime
    /\ \E i \in InlinePos(dest) : dest[i].at = 2 /\ Apart(dest[i].path, 1) <= 60

\* ------------------------------------------------------------------ C5
\* C5 as claimed: a transcript file whose name yields no timestamp is still
\* in the output of a completed run, in the tail.
C5_UnparseableIncluded ==
    pc = "done" =>
        \A p \in 1..Len(dir) :
            dir[p] = NoTs => HeadersOf(dest, p) \cap TailPos(dest) # {}

\* ------------------------------------------------------------------ C6
\* C6: the transcripts the walk did not consume are appended after the last
\* chat line (no chat line and no inlined block follows a tail block), each
\* with one header, in ascending timestamp order; a transcript more than
\* 60 s from every chat line is in the tail.
C6_TailAppended ==
    pc = "done" =>
        /\ \A i \in TailPos(dest) : \A c \in ChatPos(dest) \cup InlinePos(dest) : c < i
        /\ \A i, k \in TailPos(dest) :
              i < k => TsKey(dir[dest[i].path]) <= TsKey(dir[dest[k].path])
        /\ \A p \in Timestamped :
              HeadersOf(dest, p) \cap InlinePos(dest) = {}
                  => Cardinality(HeadersOf(dest, p) \cap TailPos(dest)) = 1
        /\ \A p \in Timestamped :
              (\A n \in TimedLines : Apart(p, n) > 60)
                  => /\ HeadersOf(dest, p) \cap InlinePos(dest) = {}
                     /\ HeadersOf(dest, p) \cap TailPos(dest) # {}

\* A completed run over timed chat lines with two transcripts in the tail,
\* the later path carrying the earlier timestamp, and one of them more than
\* 60 s from every chat line.
C6_Witness ==
    /\ pc = "done"
    /\ TimedLines # {}
    /\ \E i, k \in TailPos(dest) :
          /\ i < k
          /\ dest[i].path > dest[k].path
          /\ TsKey(dir[dest[i].path]) < TsKey(dir[dest[k].path])
          /\ \A n \in TimedLines : Apart(dest[i].path, n) > 60

\* ------------------------------------------------------------------ C7
\* C7: the blocks inlined after a chat line stand between that chat line and
\* the next one, and several blocks inlined after the same chat line are in
\* ascending timestamp order.
C7_InlineAscending ==
    pc = "done" =>
        \A i \in InlinePos(dest) :
            /\ \E c \in ChatPos(dest) :
                  /\ c < i
                  /\ dest[c].no = dest[i].at
                  /\ \A q \in ChatPos(dest) : q < i => q <= c
            /\ \A k \in InlinePos(dest) :
                  (i < k /\ dest[i].at = dest[k].at)
                      => TsKey(dir[dest[i].path]) <= TsKey(dir[dest[k].path])

\* A completed run with two transcripts inlined after the first of two chat
\* lines, the later path and the later time of day carrying the earlier
\* timestamp.
C7_Witness ==
    /\ pc = "done"
    /\ Len(chat_lines) = 2
    /\ \E i, k \in InlinePos(dest) :
          /\ i < k
          /\ dest[i].at = 1
          /\ dest[k].at = 1
          /\ dest[i].path > dest[k].path
          /\ dir[dest[i].path].tod > dir[dest[k].path].tod
          /\ TsKey(dir[dest[i].path]) < TsKey(dir[dest[k].path])

\* ------------------------------------------------------------------ C8
\* The match assignment read off an output.
AssignmentOf(out) == {<<out[i].path, out[i].at>> : i \in InlinePos(out) \cup TailPos(out)}
DistinctTimestamps(ts) ==
    \A a, b \in 1..Len(ts) : a # b => ts[a].timestamp # ts[b].timestamp

\* C8: for transcripts with pairwise distinct timestamps, sorting and then
\* walking any permutation of the list gives the match assignment of the
\* run.
C8_OrderIndependent ==
    (pc = "done" /\ DistinctTimestamps(transcripts)) =>
        \A perm \in Orderings(transcripts) :
            MatchAssignment(SortByTimestamp(perm), chat_lines) = AssignmentOf(dest)

\* A completed run over two transcripts with distinct timestamps that the
\* sort reordered, one inlined and one in the tail.
C8_Witness ==
    /\ pc = "done"
    /\ Len(transcripts) = 2
    /\ DistinctTimestamps(transcripts)
    /\ transcripts[1].path > transcripts[2].path
    /\ InlinePos(dest) # {}
    /\ TailPos(dest) # {}

\* ------------------------------------------------------------------ C9
\* C9 as claimed: a transcript file that cannot be read when its block is
\* rendered is skipped and the merge goes on, so no run is ended by it.
C9_UnreadableSkipped ==
    pc = "failed" => error # "transcript"

\* ----------------------------------------------------------------- C10
\* C10 as claimed: with the chat file or the transcript directory missing
\* the run aborts before the destination is written, which keeps its
\* previous contents.
C10_MissingInputAborts ==
    /\ error = "chat" => dest = Previous
    /\ ~dirExists => (pc # "done" /\ dest = Previous)

\* ----------------------------------------------------------------- C11
\* C11 as claimed: with a settings document that is missing, unparseable,
\* no mapping at top level, or whose speaker_mapping entry is no mapping,
\* the run goes on with an empty speaker mapping and is never ended by the
\* settings: neither at loading them nor at resolving a speaker.
InvalidSettings == {"absent", "unparseable", "not_a_dict", "bad_entry"}
C11_InvalidSettingsIgnored ==
    settings.kind \in InvalidSettings =>
        /\ speaker_mapping = NoMapping
        /\ error \notin {"settings", "speaker"}

\* ----------------------------------------------------------------- C12
\* C12 as claimed: the chat-line parser never raises; a chat line whose
\* bracketed time token is out of range counts as a line without a time, so
\* no run is ended by parsing a chat line.
C12_BadTimeIsNoTime ==
    \A i \in 1..Len(chat_file.lines) :
        chat_file.lines[i] = BadTime => error # "chat_time"

\* ----------------------------------------------------------------- C13
\* What the file name of a call spells: a date and a time the calendar and
\* the clock have, after one of the separators.
Spelled(a) ==
    /\ a.sep \in {<<" ">>, <<"_">>, <<"-">>}
    /\ a.date.valid
    /\ a.hour.value <= 23
    /\ a.minute.value <= 59
    /\ a.second.value <= 59

\* C13: parse_transcript_timestamp always returns: "no timestamp" for a
\* file name without the date/time pattern or with a pattern whose fields
\* are no calendar date and time of day (month 13, day 32, 29 February of a
\* common year, hour 24 or more, minute or second 60 or more), and for any
\* other name exactly the date and time the name spells, its seconds being
\* 00 when the name has no seconds field.
C13_ParsesOrNoTimestamp ==
    pc = "returned" =>
        res = IF Spelled(arg)
              THEN Datetime(arg.date.year, arg.date.month, arg.date.day,
                            arg.hour.value, arg.minute.value,
                            IF arg.second.value = NoSeconds THEN 0 ELSE arg.second.value)
              ELSE NoTimestamp
\* A call has returned 29 February 2024 with seconds 00 for a name that
\* spells it after a prefix and without a seconds field.
C13_Witness ==
    /\ pc = "returned"
    /\ arg.second.value = NoSeconds
    /\ arg.prefix # <<>>
    /\ res # NoTimestamp
    /\ res.second = 0
    /\ res.year = 2024 /\ res.month = 2 /\ res.day = 29

\* ----------------------------------------------------------------- C14
\* The lines of the chat file as the output holds them.
ChatFileLines == [i \in 1..Len(chat_file.lines) |-> ChatLine(i, chat_file.lines[i])]

\* C14: when the transcript directory holds no transcript file, the lines
\* of the written output are exactly the lines of the chat file, in their
\* order, with nothing added.
C14_EmptyDirectoryCopiesChat ==
    (pc = "done" /\ dir = <<>>) => dest = ChatFileLines
\* A run over an existing, empty directory has written a chat file of two
\* lines, the first of them timed.
C14_Witness ==
    /\ pc = "done"
    /\ dirExists
    /\ dir = <<>>
    /\ Len(chat_file.lines) = 2
    /\ chat_file.lines[1] \in ChatTimes
    /\ chat_file.lines[2] = NoTime

\* ----------------------------------------------------------------- C15
\* The values of the items of a mapping whose key the file name holds.
HeldValues(file, mapping) ==
    {mapping.items[i][2] : i \in {k \in 1..Len(mapping.items) : mapping.items[k] \in file.holds}}

\* C15: infer_speaker resolves in strict priority order: when the file name
\* holds a key of the mapping in any case, a value mapped to such a key is
\* returned, whatever name segment the file name carries; else the segment
\* after the date and the digits of a dated name (everything up to .txt);
\* else the segment after an underscore at the end of the name; else
\* "Unbekannt".
C15_PriorityOrder ==
    pc = "returned" =>
        IF HeldValues(arg.file, arg.mapping) # {}
        THEN res \in HeldValues(arg.file, arg.mapping)
        ELSE res = IF arg.file.dated # <<>> THEN arg.file.dated
                   ELSE IF arg.file.trailing # <<>> THEN arg.file.trailing
                   ELSE Unbekannt
\* A call has returned the mapped value for a dated file name that carries
\* the segment Max and holds the key max.
C15_Witness ==
    /\ pc = "returned"
    /\ arg.file.dated = <<"M", "a", "x">>
    /\ arg.mapping.items = <<MaxItem>>
    /\ res = MaxItem[2]

\* ----------------------------------------------------------------- C16
\* reversed(items).
Reverse(q) == [i \in 1..Len(q) |-> q[Len(q) + 1 - i]]

\* C16 as claimed: the speaker infer_speaker returns for a file name does
\* not depend on the insertion order of the entries of the mapping: it is
\* the one returned with the entries in reverse order.
C16_InsertionOrderIrrelevant ==
    pc = "returned" =>
        res = InferSpeaker(arg.file.name, AMapping(Reverse(arg.mapping.items)))

\* ----------------------------------------------------------------- C17
\* The speaker the name of the p-th file carries, the clock time of a
\* timestamp, and the lines of a text without the blanks around it.
NamedSpeaker(p) ==
    <<<<"M", "a", "x">>, <<"B", "e", "n">>, Unbekannt>>[((p - 1) % 3) + 1]
ClockOf(ts) ==
    IF ts.tod = 50639 THEN <<14, 3>> ELSE <<14, 6>>
Trimmed(text) ==
    IF text = PaddedText THEN <<TextLine(0, "one", 0), TextLine(1, "two", 0)>> ELSE <<>>
Verbatim(text) == text

\* The output consists of chat lines and of blocks, one for each transcript
\* placed: one header with the speaker of the file name and the clock time
\* of the file name, then the lines Lines(text) of the file's text, in
\* order, and nothing else.
BlocksHold(out, Lines(_)) ==
    /\ \A p \in Timestamped : Cardinality(HeadersOf(out, p)) = 1
    /\ \A i \in 1..Len(out) :
          out[i].kind = "header" =>
              LET lines == Lines(contents[out[i].path].text)
              IN  /\ out[i].speaker = NamedSpeaker(out[i].path)
                  /\ out[i].time = ClockOf(dir[out[i].path])
                  /\ i + Len(lines) <= Len(out)
                  /\ \A k \in 1..Len(lines) :
                        out[i + k] = [kind |-> "body", path |-> out[i].path,
                                      no |-> k, text |-> lines[k]]
                  /\ i + Len(lines) < Len(out) => out[i + Len(lines) + 1].kind # "body"
    /\ \A k \in 1..Len(out) :
          out[k].kind = "body" =>
              /\ k - out[k].no >= 1
              /\ out[k - out[k].no].kind = "header"
              /\ out[k - out[k].no].path = out[k].path

\* C17 as claimed: every transcript placed in the output contributes one
\* header naming the speaker and a time, followed by all lines of the
\* file's text verbatim and in order, and nothing else.
C17_BodyVerbatim ==
    pc = "done" => BlocksHold(dest, Verbatim)

\* C17, amended: every transcript placed in the output contributes one
\* header naming the speaker and a time, followed by the lines of the
\* file's text with the white space before its first and after its last
\* character removed, in order, and nothing else; a text of white space
\* only contributes the header alone.
C17_BodyTrimmed ==
    pc = "done" => BlocksHold(dest, Trimmed)
\* A completed run has placed a padded text of two lines inline and a
\* blank text in the tail.
C17_Witness ==
    /\ pc = "done"
    /\ \E i, k \in 1..Len(dest) :
          /\ dest[i].kind = "header"
          /\ dest[i].at # 0
          /\ contents[dest[i].path] = Readable(PaddedText)
          /\ dest[k].kind = "header"
          /\ dest[k].at = 0
          /\ contents[dest[k].path] = Readable(BlankText)

\* ----------------------------------------------------------------- C18
\* C18: merge_transcripts is a function of its inputs: a call that
\* completes leaves at the destination what every earlier call with the
\* same chat file, transcript files and settings left there, whatever the
\* destination held before the call, and nothing of what it held before
\* the first call.
C18_SameOutputReplaced ==
    pc = "done" =>
        /\ \A k \in 1..Len(earlier) : dest = earlier[k]
        /\ \A i \in 1..Len(dest) : dest[i].kind # "previous"
\* A second call has completed over a destination that held the output of
\* the first, with a transcript block in it.
C18_Witness ==
    /\ pc = "done"
    /\ Len(earlier) = 1
    /\ earlier[1] # Previous
    /\ \E i \in 1..Len(dest) : dest[i].kind = "header" /\ dest[i].at # 0

\* ----------------------------------------------------------------- C19
\* The directory without the files whose name yields no timestamp, sorted
\* as line 101 sorts.
OthersSorted ==
    SortByTimestamp([i \in 1..Cardinality(Timestamped) |->
        LET p == CHOOSE q \in Timestamped :
                    Cardinality({r \in Timestamped : r < q}) = i - 1
        IN  [path |-> p, timestamp |-> dir[p]]])
\* The paths of the tail blocks of an output, in their order.
RECURSIVE TailPaths(_)
TailPaths(out) ==
    IF out = <<>> THEN <<>>
    ELSE IF out[1].kind = "header" /\ out[1].at = 0
         THEN <<out[1].path>> \o TailPaths(Tail(out))
         ELSE TailPaths(Tail(out))
RECURSIVE PathsOf(_)
PathsOf(ts) == IF ts = <<>> THEN <<>> ELSE <<ts[1].path>> \o PathsOf(Tail(ts))

\* C19: files with an unparseable name in the directory change nothing
\* for the other transcripts: each of these is inlined after the chat line
\* after which the walk over the directory without those files inlines it,
\* or is in the tail as there, and the tail holds them in the same order.
C19_UnparseableDoesNotInterfere ==
    pc = "done" =>
        LET without == MatchAssignment(OthersSorted, chat_lines)
        IN  /\ {a \in AssignmentOf(dest) : a[1] \in Timestamped} = without
            /\ SelectSeq(TailPaths(dest), LAMBDA p : p \in Timestamped)
                  = PathsOf(SelectSeq(OthersSorted, LAMBDA t : <<t.path, 0>> \in without))
\* A completed run over a directory whose first file has an unparseable
\* name, the other file being inlined.
C19_Witness ==
    /\ pc = "done"
    /\ Len(dir) = 2
    /\ dir[1] = NoTs
    /\ \E i \in InlinePos(dest) : dest[i].path = 2

\* ----------------------------------------------------------------- C20
\* C20: no step of a run changes the transcript directory: it holds the
\* same files, and every file the text that was read from it; the chat file
\* and the settings are as they were, and the destination changes at the
\* final write only.
C20_DirectoryReadOnly ==
    [][/\ dirExists' = dirExists
       /\ dir' = dir
       /\ \A p \in DOMAIN contents :
             contents[p] # Unread => (p \in DOMAIN contents' /\ contents'[p] = contents[p])
       /\ chat_file' = chat_file
       /\ settings' = settings
       /\ dest' # dest => (pc = "write" /\ pc' = "done")]_vars
\* A completed run has scanned a directory of two files, one of them with
\* an unparseable name, read the other and written the destination.
C20_Witness ==
    /\ pc = "done"
    /\ dest # Previous
    /\ Len(dir) = 2
    /\ \E p, q \in 1..Len(dir) :
          /\ dir[p] = NoTs
          /\ contents[p] = Unread
          /\ contents[q] = Readable(PaddedText)

\* ----------------------------------------------------------------- C21
\* C21: a test of the transcript at the cursor against a chat line more
\* than 60 s from it ends the tests for that chat line: nothing is emitted,
\* the cursor and the sorted list stay as they are and the walk goes on to
\* the next chat line; no step of the walk between two tests moves the
\* cursor, so the next timed chat line is tested against that transcript
\* first.
C21_TooFarEndsLine ==
    [][/\ (pc = "match" /\ idx < Len(transcripts)
            /\ Abs(transcripts[idx + 1].timestamp.tod - chat_lines[lineNo].time) > 60)
          => /\ result_lines' = result_lines
             /\ idx' = idx
             /\ transcripts' = transcripts
             /\ lineNo' = lineNo + 1
             /\ pc' = "walk"
       /\ pc = "walk" => (idx' = idx /\ transcripts' = transcripts)
       /\ pc' = "match" => lineNo' \in TimedLines'
      ]_vars
\* The transcript at the cursor was more than 60 s from the first chat
\* line, nothing was emitted for it, and it is now under test against the
\* second chat line.
C21_Witness ==
    /\ pc = "match"
    /\ lineNo = 2
    /\ idx = 0
    /\ Len(transcripts) >= 1
    /\ chat_lines[1].time # NoTime
    /\ Abs(transcripts[1].timestamp.tod - chat_lines[1].time) > 60
    /\ result_lines = <<chat_lines[1], chat_lines[2]>>

\* ----------------------------------------------------------------- C22
\* C22: the step that processes a chat line without a parseable time token
\* (no token, or a token whose values are out of range) appends exactly
\* that line to the result, starts no test, and leaves the cursor and the
\* sorted list as they are.
C22_UntimedLineOnlyCopied ==
    [][(pc = "walk" /\ lineNo <= Len(chat_lines)
          /\ chat_file.lines[lineNo] \in {NoTime, BadTime})
         => /\ result_lines' = Append(result_lines, chat_lines[lineNo])
            /\ result_lines'[Len(result_lines')].no = lineNo
            /\ pc' # "match"
            /\ idx' = idx
            /\ transcripts' = transcripts
      ]_vars
\* A line without a time token has been processed with a transcript at the
\* cursor: the result holds that line alone and the walk is at the second
\* line.
C22_Witness ==
    /\ pc = "walk"
    /\ lineNo = 2
    /\ chat_file.lines[1] = NoTime
    /\ idx = 0
    /\ Len(transcripts) = 2
    /\ result_lines = <<chat_lines[1]>>

\* ----------------------------------------------------------------- C24
\* C24: the walk keeps one cursor that only moves forward: in every step
\* the cursor lies between 0 and the number of timestamped transcripts,
\* it stays or grows by one, and in a step that does not fail it grows by
\* one exactly when one more transcript block is inlined; while the run
\* has not failed the cursor is the number of inlined blocks.
C24_SingleForwardCursor ==
    [][/\ idx \in 0..Cardinality(Timestamped)
       /\ idx' \in {idx, idx + 1}
       /\ idx' <= Cardinality(Timestamped)
       /\ Cardinality(InlinePos(result_lines')) - Cardinality(InlinePos(result_lines)) \in {0, 1}
       /\ pc' # "failed" =>
            /\ idx' = idx + 1 <=>
                 Cardinality(InlinePos(result_lines')) = Cardinality(InlinePos(result_lines)) + 1
            /\ idx' = Cardinality(InlinePos(result_lines'))
      ]_vars
\* The cursor has advanced twice in the course of one chat line: two
\* transcripts are inlined after the first line and the walk is still
\* testing for that line.
C24_Witness ==
    /\ pc = "match"
    /\ lineNo = 1
    /\ idx = 2
    /\ Cardinality(InlinePos(result_lines)) = 2
    /\ \A i \in InlinePos(result_lines) : result_lines[i].at = 1

\* ----------------------------------------------------------------- C25
\* The header lines of the walk / of the tail loop in an output, in order.
InlineHeaders(out) == SelectSeq(out, LAMBDA r : r.kind = "header" /\ r.at > 0)
TailHeaders(out) == SelectSeq(out, LAMBDA r : r.kind = "header" /\ r.at = 0)
\* C25: from the start of the walk on, while nothing has failed, the list
\* is sorted by full date and time, the transcripts inlined so far are
\* exactly its first `idx` elements in that order, the tail loop emits the
\* elements from `idx` on in that order, and the written tail is exactly
\* the whole remaining suffix.
C25_InlinedPrefixTailSuffix ==
    pc \in {"walk", "match", "tail", "write", "done"} =>
        LET inl == InlineHeaders(result_lines)
            tl  == TailHeaders(result_lines)
        IN  /\ \A a, b \in 1..Len(transcripts) :
                  a < b => TsKey(transcripts[a].timestamp) <= TsKey(transcripts[b].timestamp)
            /\ Len(inl) = idx
            /\ \A i \in 1..idx : inl[i].path = transcripts[i].path
            /\ Len(tl) <= Len(transcripts) - idx
            /\ \A i \in 1..Len(tl) : tl[i].path = transcripts[idx + i].path
            /\ pc \in {"walk", "match"} => tl = <<>>
            /\ pc = "tail" => Len(tl) = j - idx
            /\ pc \in {"write", "done"} => Len(tl) = Len(transcripts) - idx
            /\ pc = "done" => dest = result_lines
\* A completed run in which the transcript at the cursor matched no chat
\* line and so kept the transcript after it, which lies within 60 s of a
\* chat line, out of the chat body: both are in the tail.
C25_Witness ==
    /\ pc = "done"
    /\ idx = 0
    /\ Len(transcripts) = 2
    /\ \A n \in TimedLines : Abs(transcripts[1].timestamp.tod - chat_lines[n].time) > 60
    /\ \E n \in TimedLines : Abs(transcripts[2].timestamp.tod - chat_lines[n].time) <= 60
    /\ Len(TailHeaders(dest)) = 2
    /\ InlineHeaders(dest) = <<>>

\* ----------------------------------------------------------------- C26
\* The body lines that follow header line i of an output.
BodyLinesAfter(out, i) ==
    {k \in (i + 1)..Len(out) :
        /\ out[k].kind = "body"
        /\ out[k].path = out[i].path
        /\ \A m \in (i + 1)..k : out[m].kind = "body"}
\* C26: until the run is done the destination holds what it held before
\* the call, also after a failure while loading, walking or appending the
\* tail; once the run is done it holds the complete merged document: the
\* settings and the chat file were read, every timestamped transcript was
\* read and has its header and its whole stripped text in the output, and
\* every chat line is there.
C26_WrittenOnceAtTheEnd ==
    /\ pc # "done" => dest = Previous
    /\ pc = "done" =>
          /\ error = "none"
          /\ dest = result_lines
          /\ settings.kind # "unparseable"
          /\ chat_file.exists
          /\ ChatOnly(dest) = [i \in 1..Len(chat_file.lines) |-> ChatLine(i, chat_file.lines[i])]
          /\ \A p \in Timestamped :
                /\ contents[p].state = "read"
                /\ \E i \in HeadersOf(dest, p) :
                      Cardinality(BodyLinesAfter(dest, i)) = Len(Strip(contents[p].text))
\* A run has failed on the read of a transcript in the tail loop, after the
\* chat lines, an inlined transcript and the header of the failing one were
\* collected: the destination holds what it held before.
C26_Witness ==
    /\ pc = "failed"
    /\ error = "transcript"
    /\ Len(chat_lines) = 2
    /\ ChatOnly(result_lines) = chat_lines
    /\ InlinePos(result_lines) # {}
    /\ TailPos(result_lines) # {}
    /\ dest = Previous

\* ----------------------------------------------------------------- C29
\* C29: every header line, of the walk and of the tail loop, shows the hour
\* and the minute of the transcript's own timestamp with the seconds cut
\* off: the shown minute starts at or before the transcript's time of day
\* and less than 60 s before it.
C29_HeaderShowsOwnMinute ==
    \A i \in 1..Len(result_lines) :
        result_lines[i].kind = "header" =>
            LET shown == result_lines[i].time
                own   == dir[result_lines[i].path].tod
            IN  /\ shown[1] \in 0..23
                /\ shown[2] \in 0..59
                /\ shown[1] * 3600 + shown[2] * 60 <= own
                /\ own < shown[1] * 3600 + shown[2] * 60 + 60
\* A completed run where the transcript at 14:04:30 is inlined after the
\* chat line [14:05] and headed 14:04, and the one at 14:06:30 is in the
\* tail, headed 14:06.
C29_Witness ==
    /\ pc = "done"
    /\ \E i \in InlinePos(dest) :
          /\ dir[dest[i].path].tod = 50670
          /\ chat_lines[dest[i].at].time = 50700
          /\ dest[i].time = <<14, 4>>
    /\ \E i \in TailPos(dest) :
          /\ dir[dest[i].path].tod = 50790
          /\ dest[i].time = <<14, 6>>

\* ----------------------------------------------------------------- C30
\* C30: from the sort on, transcripts with equal timestamps stand in the
\* list in ascending path order, whatever order the directory was listed
\* in, and so do their header lines in the result: the one with the smaller
\* path is tested, inlined and appended first.
C30_EqualTimestampsInPathOrder ==
    pc \in {"readchat", "walk", "match", "tail", "write", "done", "failed"} =>
        /\ \A a, b \in 1..Len(transcripts) :
              (a < b /\ transcripts[a].timestamp = transcripts[b].timestamp)
                  => transcripts[a].path < transcripts[b].path
        /\ \A i, k \in 1..Len(result_lines) :
              (/\ i < k
               /\ result_lines[i].kind = "header"
               /\ result_lines[k].kind = "header"
               /\ dir[result_lines[i].path] = dir[result_lines[k].path])
                  => result_lines[i].path < result_lines[k].path
        /\ (pc = "match" /\ idx < Len(transcripts)) =>
              \A b \in (idx + 2)..Len(transcripts) :
                  transcripts[b].timestamp = transcripts[idx + 1].timestamp
                      => transcripts[idx + 1].path < transcripts[b].path
\* A completed run over two files with the same timestamp: the file with
\* the smaller path was inlined first, both after the same chat line.
C30_Witness ==
    /\ pc = "done"
    /\ Len(dir) = 2
    /\ dir[1] = dir[2]
    /\ dir[1] # NoTs
    /\ \E i, k \in InlinePos(dest) :
          /\ i < k
          /\ dest[i].path = 1
          /\ dest[k].path = 2
          /\ dest[i].at = dest[k].at

\* ----------------------------------------------------------------- C23
\* The [date, tod] form the run keeps of a calendar datetime, dates counted
\* from the date of the chat lines.
OnTheAxis(t) == [date |-> Ordinal(t) - Ordinal(ChatDatetime(0, 0)) + ChatDate,
                 tod |-> TimeOfDay(t)]
\* C23: the tolerance test never raises and its outcome is decided by the
\* times of day alone: it is "within" exactly when the transcript's hour,
\* minute and second lie at most 60 s from the chat line's hour and minute,
\* it is the same for every calendar date put in place of the transcript's
\* (29 February among them), and it is the outcome of the test the run
\* makes on the [date, tod] form.
C23_DateReplacedBeforeComparing ==
    pc = "returned" =>
        /\ res = IF Abs(TimeOfDay(arg.timestamp) - TimeOfDay(arg.line_time)) <= 60
                 THEN "within" ELSE "apart"
        /\ \A d \in CivilDates :
              ToleranceTest([arg.timestamp EXCEPT !.year = d[1], !.month = d[2], !.day = d[3]],
                            arg.line_time) = res
        /\ (res = "within") <=>
              WithinTolerance(OnTheAxis(arg.timestamp), OnTheAxis(arg.line_time))
\* A transcript dated 29 February 2024, at 14:04:30, was tested against the
\* chat line [14:05] and found within tolerance.
C23_Witness ==
    /\ pc = "returned"
    /\ arg.timestamp = Datetime(2024, 2, 29, 14, 4, 30)
    /\ arg.line_time = ChatDatetime(14, 5)
    /\ res = "within"

\* ----------------------------------------------------------------- C28
\* C28: the tolerance window does not wrap around midnight: a transcript
\* in the last minute of a day is apart from the chat line [00:00], and a
\* transcript in the first minute of a day is apart from the chat line
\* [23:59], whatever its date.
C28_NoWrapAtMidnight ==
    pc = "returned" =>
        /\ (/\ arg.timestamp.hour = 23 /\ arg.timestamp.minute = 59
            /\ arg.line_time.hour = 0 /\ arg.line_time.minute = 0) => res = "apart"
        /\ (/\ arg.timestamp.hour = 0 /\ arg.timestamp.minute = 0
            /\ arg.line_time.hour = 23 /\ arg.line_time.minute = 59) => res = "apart"
\* A transcript at 23:59:30 on 31 December 1999 was tested against the
\* chat line [00:00] and found apart.
C28_Witness ==
    /\ pc = "returned"
    /\ arg.timestamp = Datetime(1999, 12, 31, 23, 59, 30)
    /\ arg.line_time = ChatDatetime(0, 0)
    /\ res = "apart"

\* ----------------------------------------------------------------- C27
\* The chat lines of the chat file that carry a time.
TimedChatLines == {n \in 1..Len(chat_file.lines) : chat_file.lines[n] \notin {NoTime, BadTime}}
\* C27: a run makes at most as many tolerance tests as there are timed
\* chat lines and timestamped transcripts together, and it comes to its
\* end: it completes or an exception ends it.
C27_BoundedTestsAndTermination ==
    /\ [](tests <= Cardinality(TimedChatLines) + Cardinality(Timestamped))
    /\ <>(pc \in {"done", "failed"})
\* A completed run over two timed chat lines and two transcripts that made
\* a test for each of them: one transcript inlined after each line, and
\* one test that ended the loop of each line.
C27_Witness ==
    /\ pc = "done"
    /\ Cardinality(TimedChatLines) = 2
    /\ Cardinality(Timestamped) = 2
    /\ idx = 1
    /\ tests = 3
====
